---- MODULE Spec2Model ----
(***************************************************************************)
(* Model of the text-to-speech failover wrapper of Granny-voice/agent.py:  *)
(* FallbackTTS, FallbackSynthesizeStream and LoggedSynthesizeStream, with  *)
(* the two backends (primary, fallback) as an environment whose calls may  *)
(* succeed or raise.  One utterance (one stream) is modelled.              *)
(*                                                                         *)
(* A backend stream is an external object.  It is modelled by what it has  *)
(* received (chunks, end markers) and how many frames it has yielded.  Its *)
(* output is a function of its input: the i-th frame is the audio of the   *)
(* i-th chunk it received, and it signals end-of-stream once it has the    *)
(* end marker and has yielded the audio of every chunk; until then a pull  *)
(* on it stays suspended.  Any call on a backend may raise instead, at any *)
(* time, also after an earlier failure.  A pull is two steps: the part of  *)
(* __anext__ before the await, and the backend's answer with the rest of   *)
(* __anext__; push_text and mark_segment_end may run in between.           *)
(*                                                                         *)
(* Spec starts from a FallbackTTS over two distinct backends.  StartupSpec *)
(* starts before the module is imported and runs entrypoint first: the key *)
(* checks, the room connection, the provider objects (where the fallback   *)
(* may be the primary's own object) and the session start.  MultiSpec      *)
(* keeps several streams of one FallbackTTS, reduced to the wrapper's own  *)
(* fields.  SelfTestSpec is the process run with GRANNY_SELF_TEST=1:       *)
(* run_self_test driving one stream, and the exit status.                  *)
(***************************************************************************)
EXTENDS Integers, Sequences, FiniteSets, TLC

\* the exit status of a process that has not exited
Running == -1

\* ---- bounds ----
MaxPush == 2
MaxMarks == 1
MaxUtterances == 2

\* The text of the utterance, chunk by chunk: the i-th push_text call pushes
\* Chunk(i).  The code never inspects a chunk, so chunks that are all
\* different show every reordering, loss and duplication.
Utterance == <<"Hello", "", "world", "again">>
Chunk(i) == IF i <= Len(Utterance) THEN Utterance[i] ELSE ToString(i)
Providers == {"primary", "fallback"}

VARIABLES
    force_failure,      \* FallbackTTS._force_failure
    active_provider,    \* FallbackTTS._active_provider
    audio_frame_count,  \* FallbackTTS._audio_frame_count
    stream_kind,        \* class of the object FallbackTTS.stream returned
    text_buffer,        \* FallbackSynthesizeStream._text_buffer
    segment_ended,      \* FallbackSynthesizeStream._segment_ended
    current_stream,     \* FallbackSynthesizeStream._current_stream
    using_fallback,     \* FallbackSynthesizeStream._using_fallback
    frame_count,        \* FallbackSynthesizeStream._frame_count
    initialized,        \* FallbackSynthesizeStream._initialized
    exhausted,          \* FallbackSynthesizeStream._exhausted
    logged_frame_count, \* LoggedSynthesizeStream._frame_count
    backend,            \* per provider: what the backend has seen and done
    pc,                 \* position of the pull coroutine: "idle" or "await"
    last_result,        \* outcome of the last finished pull
    errored,            \* some pull has raised an error
    eos_pulls,          \* a pull was started after an end-of-stream signal
    delivered,          \* frames returned to the caller, in order
    pushes, marks,      \* how often the caller has pushed / marked
    synth_result,       \* outcome of the last synthesize() call
    closed,             \* the caller has called aclose
    openai_key,         \* environment: OPENAI_API_KEY
    eleven_key,         \* environment: ELEVEN_API_KEY or ELEVENLABS_API_KEY
    startup,            \* position of the process from import to live
    room_connected,     \* ctx.connect has returned
    plugins,            \* provider objects entrypoint has created
    session_started,    \* session.start has returned
    fallback_tts,       \* the object FallbackTTS._fallback refers to
    utterances,         \* the streams of one FallbackTTS, several in flight
    test_result,        \* how run_self_test ended
    exit_status         \* exit status of the process, Running until it exits

vars == <<force_failure, active_provider, audio_frame_count, stream_kind,
          text_buffer, segment_ended, current_stream, using_fallback,
          frame_count, initialized, exhausted, logged_frame_count, backend,
          pc, last_result, errored, eos_pulls, delivered,
          pushes, marks, synth_result, closed, openai_key, eleven_key,
          startup, room_connected, plugins, session_started, fallback_tts,
          utterances, test_result, exit_status>>

\* the environment and the progress of entrypoint
entryVars == <<openai_key, eleven_key, startup, room_connected, plugins,
               session_started>>
\* what is fixed once the FallbackTTS is in use
ttsVars == <<force_failure, audio_frame_count, fallback_tts, entryVars,
             utterances, test_result, exit_status>>
fssVars == <<text_buffer, segment_ended, current_stream, using_fallback,
             frame_count, initialized, exhausted>>
pullVars == <<pc, last_result, errored, eos_pulls, delivered>>
callerVars == <<pushes, marks, synth_result, closed>>

\* ---- the backends (environment) ----

\* called: some call reached the provider's TTS object (stream, synthesize);
\* streams: stream() calls made on it; live: its streams opened and not
\* closed; recv, ends, yielded: chunks and end markers its newest stream has
\* received, frames that stream has yielded; failed: a stream() call on it or
\* a call on one of its streams raised; sfailed: a synthesize() call raised;
\* stext: the text of the last synthesize() call it received.
FreshBackend ==
    [called |-> FALSE, streams |-> 0, live |-> 0, recv |-> <<>>, ends |-> 0,
     yielded |-> 0, failed |-> FALSE, sfailed |-> FALSE, stext |-> "none"]

\* tts.stream(text) returned a new stream object of provider p
Open(b, p) ==
    [b EXCEPT ![p].called = TRUE, ![p].streams = @ + 1, ![p].live = @ + 1,
              ![p].recv = <<>>, ![p].ends = 0, ![p].yielded = 0]

\* tts.stream(text) of provider p raised
OpenFail(b, p) ==
    [b EXCEPT ![p].called = TRUE, ![p].streams = @ + 1, ![p].failed = TRUE]

\* a call on the stream of provider p raised
Fail(b, p) == [b EXCEPT ![p].failed = TRUE]

\* the chunk handed to the stream of provider p twice
Push_Twice(b, p, c) == [b EXCEPT ![p].recv = Append(Append(@, c), c)]

\* stream.push_text(c) on the stream of provider p
Push(b, p, c) == [b EXCEPT ![p].recv = Append(@, c)]

\* the end marker not handed to the stream of provider p
Mark_Dropped(b, p) == b

\* stream.mark_segment_end() on the stream of provider p
Mark(b, p) == [b EXCEPT ![p].ends = @ + 1]

\* the audio of the i-th chunk c, synthesized by provider p
Frame(p, i, c) == <<p, i, c>>

\* what provider p produces, standalone, for the chunks cs
Synth(p, cs) == [i \in 1..Len(cs) |-> Frame(p, i, cs[i])]

IsPrefix(s, t) == Len(s) <= Len(t) /\ SubSeq(t, 1, Len(s)) = s

\* ---- FallbackSynthesizeStream: replay of the buffer ----

\* a replay that pushes the buffered chunks and never sends the end marker
ReplaySteps_NoEnd(buf, ended) == Len(buf)

\* the calls a replay makes on a new stream: one push per buffered chunk, in
\* buffer order, then the end marker if the segment was marked ended
ReplaySteps(buf, ended) == Len(buf) + (IF ended THEN 1 ELSE 0)

\* the replay loop walking the buffer from its end
ReplayChunk_Reversed(buf, k) == buf[Len(buf) + 1 - k]

\* the k-th buffered chunk pushed by the replay loop
ReplayChunk(buf, k) == buf[k]

\* the stream of provider p after the first k calls of the replay succeeded;
\* with k < ReplaySteps the call k+1 raised
Replay(b, p, buf, ended, k) ==
    LET n == IF k < Len(buf) THEN k ELSE Len(buf)
        chunks == [i \in 1..n |-> ReplayChunk(buf, i)]
        b1 == [b EXCEPT ![p].recv = @ \o chunks,
                        ![p].ends = @ + (IF k > Len(buf) THEN 1 ELSE 0)]
    IN IF k < ReplaySteps(buf, ended) THEN Fail(b1, p) ELSE b1

\* _switch_to_fallback without the assignment _using_fallback = True
SwitchToFallback_NoLatch(b, cur, fo, fk) ==
    IF ~fo
    THEN [b |-> OpenFail(b, "fallback"), cur |-> cur,
          using |-> using_fallback, err |-> TRUE]
    ELSE [b |-> Replay(Open(b, "fallback"), "fallback", text_buffer,
                       segment_ended, fk),
          cur |-> "fallback", using |-> using_fallback,
          err |-> fk < ReplaySteps(text_buffer, segment_ended)]

\* _switch_to_fallback replaying only the text whose audio was not returned
\* yet (it skips one chunk per frame already counted)
SwitchToFallback_Resume(b, cur, fo, fk) ==
    LET rest == SubSeq(text_buffer, frame_count + 1, Len(text_buffer))
        n == ReplaySteps(rest, segment_ended)
        k == IF fk < ReplaySteps(text_buffer, segment_ended) /\ fk < n
             THEN fk ELSE n
    IN IF ~fo
       THEN [b |-> OpenFail(b, "fallback"), cur |-> cur, using |-> TRUE,
             err |-> TRUE]
       ELSE [b |-> Replay(Open(b, "fallback"), "fallback", rest,
                          segment_ended, k),
             cur |-> "fallback", using |-> TRUE, err |-> k < n]

\* _switch_to_fallback: open the fallback stream and replay the buffer onto
\* it.  fo: the open succeeds; fk: calls of the replay that succeed.
\* Result: the backends, _current_stream, _using_fallback, whether it raised.
SwitchToFallback(b, cur, fo, fk) ==
    IF ~fo
    THEN [b |-> OpenFail(b, "fallback"), cur |-> cur, using |-> TRUE,
          err |-> TRUE]
    ELSE [b |-> Replay(Open(b, "fallback"), "fallback", text_buffer,
                       segment_ended, fk),
          cur |-> "fallback", using |-> TRUE,
          err |-> fk < ReplaySteps(text_buffer, segment_ended)]

\* _initialize_stream with the replay loop left out: the primary stream is
\* opened and nothing buffered is pushed onto it
InitializeStream_NoReplay(b, po, pk, fo, fk) ==
    IF initialized
    THEN [b |-> b, cur |-> current_stream, using |-> using_fallback,
          err |-> FALSE]
    ELSE IF ~po
    THEN SwitchToFallback(OpenFail(b, "primary"), current_stream, fo, fk)
    ELSE [b |-> Open(b, "primary"), cur |-> "primary",
          using |-> using_fallback, err |-> FALSE]

\* _initialize_stream: on the first pull open the primary stream and replay
\* the buffer onto it; any failure switches to the fallback.
\* po, pk: outcome of the primary's open and replay; fo, fk: the fallback's.
InitializeStream(b, po, pk, fo, fk) ==
    IF initialized
    THEN [b |-> b, cur |-> current_stream, using |-> using_fallback,
          err |-> FALSE]
    ELSE IF ~po
    THEN SwitchToFallback(OpenFail(b, "primary"), current_stream, fo, fk)
    ELSE IF pk < ReplaySteps(text_buffer, segment_ended)
    THEN SwitchToFallback(
             Replay(Open(b, "primary"), "primary", text_buffer,
                    segment_ended, pk),
             "primary", fo, fk)
    ELSE [b |-> Replay(Open(b, "primary"), "primary", text_buffer,
                       segment_ended, pk),
          cur |-> "primary", using |-> using_fallback, err |-> FALSE]

\* __anext__ without the check of _exhausted
ExhaustedGuard_Never == FALSE

\* the check at the head of __anext__: an exhausted stream stops at once
ExhaustedGuard == exhausted

\* the except-Exception branch re-raising every error of the awaited stream
MayFallBack_Never == FALSE

\* the except-Exception branch falling back on every error
MayFallBack_Always == TRUE

\* the except-Exception branch of __anext__: fall back only if not yet done
MayFallBack == ~using_fallback

\* ---- the environment of the process ----

\* An API key variable is unset (or empty), holds only white space, or
\* holds a key.
KeyValues == {"unset", "blank", "set"}

\* bool(os.getenv(name, "")): the raw value is not the empty string
Truthy(k) == k # "unset"

\* the raw truth value taken for the stripped one
KeyPresent_NoStrip(k) == k # "unset"

\* bool(os.getenv(name, "").strip()) in _validate_keys
KeyPresent(k) == k = "set"

\* the provider objects entrypoint creates
AllPlugins == {"stt", "llm", "openai_tts", "elevenlabs_tts", "tts", "vad"}

\* ---- initial state: the synthesizer is constructed, no stream yet ----

Init ==
    /\ force_failure \in BOOLEAN
    /\ active_provider = "none"
    /\ audio_frame_count = 0
    /\ stream_kind = "none"
    /\ text_buffer = <<>>
    /\ segment_ended = FALSE
    /\ current_stream = "none"
    /\ using_fallback = FALSE
    /\ frame_count = 0
    /\ initialized = FALSE
    /\ exhausted = FALSE
    /\ logged_frame_count = 0
    /\ backend = [p \in Providers |-> FreshBackend]
    /\ pc = "idle"
    /\ last_result = "none"
    /\ errored = FALSE
    /\ eos_pulls = FALSE
    /\ delivered = <<>>
    /\ pushes = 0
    /\ marks = 0
    /\ synth_result = "none"
    /\ closed = FALSE
    /\ openai_key = "set"
    /\ eleven_key = "set"
    /\ startup = "live"
    /\ room_connected = TRUE
    /\ plugins = AllPlugins
    /\ session_started = TRUE
    /\ fallback_tts = "elevenlabs"
    /\ utterances = <<>>
    /\ test_result = "none"
    /\ exit_status = Running

\* ---- FallbackTTS ----

\* the backend stream the wrapper holds: LoggedSynthesizeStream._inner (always
\* a stream of the fallback) or FallbackSynthesizeStream._current_stream
Inner == IF stream_kind = "LoggedSynthesizeStream" THEN "fallback"
         ELSE current_stream

HasStream == stream_kind \in {"FallbackSynthesizeStream",
                              "LoggedSynthesizeStream"}

\* a FallbackTTS has been built and handed to its user: the started session
\* of entrypoint, or the try block of run_self_test
InUse == session_started \/ startup = "self_test"

\* FallbackTTS.stream ignoring the force-failure flag
ForcedBranch_Never == FALSE

\* FallbackTTS.stream takes the forced branch
ForcedBranch == force_failure

\* FallbackTTS.stream(text), called once for the utterance.  Forced mode opens
\* the fallback stream here and wraps it in the logging stream; fo: that
\* stream() call succeeds (if it raises, the caller gets no stream).
StreamCall(fo) ==
    /\ InUse
    /\ stream_kind = "none"
    /\ IF ForcedBranch
       THEN /\ active_provider' = "fallback"
            /\ IF fo
               THEN /\ backend' = Open(backend, "fallback")
                    /\ stream_kind' = "LoggedSynthesizeStream"
               ELSE /\ backend' = OpenFail(backend, "fallback")
                    /\ stream_kind' = "raised"
       ELSE /\ fo
            /\ active_provider' = "primary"
            /\ stream_kind' = "FallbackSynthesizeStream"
            /\ backend' = backend
    /\ UNCHANGED <<ttsVars, fssVars, logged_frame_count, pullVars,
                   callerVars>>

\* _synthesize_with_fallback going to the fallback at once
SynthPrimaryFirst_Never == FALSE

\* _synthesize_with_fallback tries the primary first
SynthPrimaryFirst == ~force_failure

\* the text the caller hands to synthesize()
SynthText == "Hello, dearie"

\* a synthesize(text) call reached provider p; ok: it returned
SynthCall(b, p, text, ok) ==
    [b EXCEPT ![p].called = TRUE, ![p].sfailed = @ \/ ~ok,
              ![p].stext = text]

\* FallbackTTS.synthesize(text) -> _synthesize_with_fallback.
\* po, fo: the primary's / the fallback's synthesize() returns.
Synthesize(po, fo) ==
    /\ InUse
    /\ IF ~SynthPrimaryFirst
       THEN /\ po
            /\ active_provider' = "fallback"
            /\ backend' = SynthCall(backend, "fallback", SynthText, fo)
            /\ synth_result' = IF fo THEN "fallback" ELSE "error"
       ELSE IF po
       THEN /\ fo
            /\ active_provider' = "primary"
            /\ backend' = SynthCall(backend, "primary", SynthText, TRUE)
            /\ synth_result' = "primary"
       ELSE /\ active_provider' = "fallback"
            /\ backend' = SynthCall(SynthCall(backend, "primary", SynthText,
                                              FALSE),
                                    "fallback", SynthText, fo)
            /\ synth_result' = IF fo THEN "fallback" ELSE "error"
    /\ UNCHANGED <<ttsVars, stream_kind, fssVars, logged_frame_count,
                   pullVars, pushes, marks, closed>>

\* ---- push_text / mark_segment_end / aclose (both stream classes) ----

\* the call kept from the held stream
Forward_Dropped(b, p, ok, done) == b

\* the call forwarded to the held stream, if there is one
Forward(b, p, ok, done) == IF p = "none" THEN b
                           ELSE IF ok THEN done ELSE Fail(b, p)

\* push_text(c).  ok: the forwarded push_text on the held stream returns.
PushText(c, ok) ==
    /\ HasStream
    /\ ~closed
    /\ pushes < MaxPush
    /\ Inner = "none" => ok
    /\ pushes' = pushes + 1
    /\ text_buffer' = IF stream_kind = "FallbackSynthesizeStream"
                      THEN Append(text_buffer, c) ELSE text_buffer
    /\ backend' = Forward(backend, Inner, ok, Push(backend, Inner, c))
    /\ UNCHANGED <<ttsVars, active_provider, stream_kind, segment_ended,
                   current_stream, using_fallback, frame_count, initialized,
                   exhausted, logged_frame_count, pullVars, marks,
                   synth_result, closed>>

\* mark_segment_end().  ok: the forwarded call on the held stream returns.
MarkSegmentEnd(ok) ==
    /\ HasStream
    /\ ~closed
    /\ marks < MaxMarks
    /\ Inner = "none" => ok
    /\ marks' = marks + 1
    /\ segment_ended' = IF stream_kind = "FallbackSynthesizeStream"
                        THEN TRUE ELSE segment_ended
    /\ backend' = Forward(backend, Inner, ok, Mark(backend, Inner))
    /\ UNCHANGED <<ttsVars, active_provider, stream_kind, text_buffer,
                   current_stream, using_fallback, frame_count, initialized,
                   exhausted, logged_frame_count, pullVars, pushes,
                   synth_result, closed>>

\* aclose(): closes the held stream, if there is one
Aclose ==
    /\ HasStream
    /\ ~closed
    /\ pc = "idle"
    /\ closed' = TRUE
    /\ backend' = IF Inner = "none" THEN backend
                  ELSE [backend EXCEPT ![Inner].live = @ - 1]
    /\ UNCHANGED <<ttsVars, active_provider, stream_kind, fssVars,
                   logged_frame_count, pullVars, pushes, marks, synth_result>>

\* ---- __anext__ ----

\* The outcomes of the backend calls one pull can make, each case once:
\* a replay outcome counts the calls that succeed, and an outcome that no
\* call reads is fixed (true, 0).
OutcomeOK(po, pk, fo, fk) ==
    LET n == ReplaySteps(text_buffer, segment_ended) IN
    IF initialized \/ ExhaustedGuard THEN po /\ fo /\ pk = 0 /\ fk = 0
    ELSE /\ pk <= n /\ fk <= n
         /\ ~po => pk = 0
         /\ ~fo => fk = 0
         /\ (po /\ pk = n) => (fo /\ fk = 0)

\* FallbackSynthesizeStream.__anext__ up to its first suspension: the
\* exhausted check, _initialize_stream, and the frame request on the current
\* stream.  po, pk, fo, fk: outcomes of the opens and replays it may make.
PullFallbackStream(po, pk, fo, fk) ==
    /\ stream_kind = "FallbackSynthesizeStream"
    /\ ~closed
    /\ pc = "idle"
    /\ OutcomeOK(po, pk, fo, fk)
    /\ eos_pulls' = (eos_pulls \/ last_result = "stop")
    /\ IF ExhaustedGuard
       THEN /\ last_result' = "stop"
            /\ UNCHANGED <<backend, current_stream, using_fallback,
                           initialized, pc, errored>>
       ELSE LET r == InitializeStream(backend, po, pk, fo, fk) IN
            /\ initialized' = TRUE
            /\ current_stream' = r.cur
            /\ using_fallback' = r.using
            /\ backend' = r.b
            /\ IF r.err \/ r.cur = "none"
               THEN \* both providers failed, or there is no stream to pull
                    /\ last_result' = "error"
                    /\ errored' = TRUE
                    /\ UNCHANGED pc
               ELSE /\ pc' = "await"
                    /\ UNCHANGED <<last_result, errored>>
    /\ UNCHANGED <<ttsVars, active_provider, stream_kind, text_buffer,
                   segment_ended, frame_count, exhausted, logged_frame_count,
                   delivered, callerVars>>

\* LoggedSynthesizeStream.__anext__ up to the await on the inner stream
PullLoggedStream ==
    /\ stream_kind = "LoggedSynthesizeStream"
    /\ ~closed
    /\ pc = "idle"
    /\ eos_pulls' = (eos_pulls \/ last_result = "stop")
    /\ pc' = "await"
    /\ UNCHANGED <<ttsVars, active_provider, stream_kind, fssVars,
                   logged_frame_count, backend, last_result, errored,
                   delivered, callerVars>>

\* the frame the stream of provider p yields next
NextFrame(b, p) == Frame(p, b[p].yielded + 1, b[p].recv[b[p].yielded + 1])

\* __anext__ returning the frame with its audio replaced
Returned_Blank(f) == <<f[1], f[2], "blank">>

\* what __anext__ returns when the awaited stream yields the frame f
Returned(f) == f

\* the awaited stream yields a frame: __anext__ counts and returns it
RespFrame ==
    /\ pc = "await"
    /\ backend[Inner].yielded < Len(backend[Inner].recv)
    /\ backend' = [backend EXCEPT ![Inner].yielded = @ + 1]
    /\ delivered' = Append(delivered, Returned(NextFrame(backend, Inner)))
    /\ last_result' = "frame"
    /\ IF stream_kind = "FallbackSynthesizeStream"
       THEN frame_count' = frame_count + 1
            /\ logged_frame_count' = logged_frame_count
       ELSE logged_frame_count' = logged_frame_count + 1
            /\ frame_count' = frame_count
    /\ pc' = "idle"
    /\ UNCHANGED <<ttsVars, active_provider, stream_kind, text_buffer,
                   segment_ended, current_stream, using_fallback, initialized,
                   exhausted, errored, eos_pulls, callerVars>>

\* the end-of-stream of the awaited stream handled like a failure: the
\* stream switches to the fallback and the pull goes on there
RespStop_AsFailure ==
    /\ pc = "await"
    /\ stream_kind = "FallbackSynthesizeStream"
    /\ ~using_fallback
    /\ backend[Inner].yielded = Len(backend[Inner].recv)
    /\ backend[Inner].ends > 0
    /\ LET r == SwitchToFallback(backend, current_stream, TRUE,
                                 ReplaySteps(text_buffer, segment_ended)) IN
       /\ current_stream' = r.cur
       /\ using_fallback' = r.using
       /\ backend' = r.b
    /\ UNCHANGED <<ttsVars, active_provider, stream_kind, text_buffer,
                   segment_ended, frame_count, initialized, exhausted,
                   logged_frame_count, pullVars, callerVars>>

\* the awaited stream signals end-of-stream: StopAsyncIteration is re-raised,
\* FallbackSynthesizeStream latches _exhausted first
RespStop ==
    /\ pc = "await"
    /\ backend[Inner].yielded = Len(backend[Inner].recv)
    /\ backend[Inner].ends > 0
    /\ exhausted' = IF stream_kind = "FallbackSynthesizeStream" THEN TRUE
                    ELSE exhausted
    /\ last_result' = "stop"
    /\ pc' = "idle"
    /\ UNCHANGED <<ttsVars, active_provider, stream_kind, text_buffer,
                   segment_ended, current_stream, using_fallback, frame_count,
                   initialized, logged_frame_count, backend, errored,
                   eos_pulls, delivered, callerVars>>

\* the awaited stream raises.  FallbackSynthesizeStream switches to the
\* fallback once and calls __anext__ again (nested), which requests a frame
\* from the new current stream; otherwise the error goes to the caller.
\* fo, fk: outcome of the fallback's open and replay.
RespFail(fo, fk) ==
    /\ pc = "await"
    /\ IF stream_kind = "FallbackSynthesizeStream" /\ MayFallBack
       THEN LET r == SwitchToFallback(Fail(backend, Inner), current_stream,
                                      fo, fk) IN
            /\ fk <= ReplaySteps(text_buffer, segment_ended)
            /\ ~fo => fk = 0
            /\ current_stream' = r.cur
            /\ using_fallback' = r.using
            /\ backend' = r.b
            /\ IF r.err
               THEN /\ last_result' = "error"
                    /\ errored' = TRUE
                    /\ pc' = "idle"
               ELSE /\ pc' = "await"
                    /\ UNCHANGED <<last_result, errored>>
       ELSE /\ fo /\ fk = 0
            /\ backend' = Fail(backend, Inner)
            /\ last_result' = "error"
            /\ errored' = TRUE
            /\ pc' = "idle"
                    /\ UNCHANGED <<current_stream, using_fallback>>
    /\ UNCHANGED <<ttsVars, active_provider, stream_kind, text_buffer,
                   segment_ended, frame_count, initialized, exhausted,
                   logged_frame_count, eos_pulls, delivered, callerVars>>

\* ---- the specification ----

Outcomes == 0..(MaxPush + 1)

Next ==
    \/ \E fo \in BOOLEAN : StreamCall(fo)
    \/ \E po, fo \in BOOLEAN : Synthesize(po, fo)
    \/ \E ok \in BOOLEAN : PushText(Chunk(pushes + 1), ok)
    \/ \E ok \in BOOLEAN : MarkSegmentEnd(ok)
    \/ Aclose
    \/ \E po, fo \in BOOLEAN, pk, fk \in Outcomes :
           PullFallbackStream(po, pk, fo, fk)
    \/ PullLoggedStream
    \/ RespFrame
    \/ RespStop
    \/ \E fo \in BOOLEAN, fk \in Outcomes : RespFail(fo, fk)

Spec == Init /\ [][Next]_vars

\* ---- startup: module import and entrypoint ----

\* everything that belongs to the utterance
streamVars == <<active_provider, stream_kind, fssVars, logged_frame_count,
                backend, pullVars, callerVars>>

\* The module is imported: the debug check at its head raises if the raw
\* OPENAI_API_KEY is empty.
ImportModule ==
    /\ startup = "import"
    /\ startup' = IF Truthy(openai_key) THEN "loaded" ELSE "failed"
    /\ UNCHANGED <<force_failure, audio_frame_count, fallback_tts,
                   openai_key, eleven_key, room_connected, plugins,
                   session_started, streamVars, utterances, test_result,
                   exit_status>>

\* entrypoint step 1, _validate_keys(): raises if the stripped
\* OPENAI_API_KEY is empty; a missing ElevenLabs key is only logged.
ValidateKeys ==
    /\ startup = "loaded"
    /\ startup' = IF KeyPresent(openai_key) THEN "validated" ELSE "failed"
    /\ UNCHANGED <<force_failure, audio_frame_count, fallback_tts,
                   openai_key, eleven_key, room_connected, plugins,
                   session_started, streamVars, utterances, test_result,
                   exit_status>>

\* entrypoint step 2, _test_openai_connection(); ok: the test request
\* succeeds, otherwise RuntimeError ends entrypoint.
TestOpenAIConnection(ok) ==
    /\ startup = "validated"
    /\ startup' = IF ok THEN "tested" ELSE "failed"
    /\ UNCHANGED <<force_failure, audio_frame_count, fallback_tts,
                   openai_key, eleven_key, room_connected, plugins,
                   session_started, streamVars, utterances, test_result,
                   exit_status>>

\* entrypoint step 3, ctx.connect
ConnectRoom ==
    /\ startup = "tested"
    /\ room_connected' = TRUE
    /\ startup' = "connected"
    /\ UNCHANGED <<force_failure, audio_frame_count, fallback_tts,
                   openai_key, eleven_key, plugins, session_started,
                   streamVars, utterances, test_result,
                   exit_status>>

\* the object entrypoint passes as fallback_tts: an ElevenLabs TTS if a key
\* is found, else the OpenAI TTS object that is the primary as well
FallbackObject == IF Truthy(eleven_key) THEN "elevenlabs" ELSE "openai"

\* entrypoint step 4: STT, LLM, the OpenAI TTS, the ElevenLabs TTS if there
\* is a key for it, the FallbackTTS over the two, and the VAD
InitPlugins ==
    /\ startup = "connected"
    /\ plugins' = {"stt", "llm", "openai_tts", "tts", "vad"}
                  \cup (IF Truthy(eleven_key) THEN {"elevenlabs_tts"}
                        ELSE {})
    /\ fallback_tts' = FallbackObject
    /\ startup' = "plugins"
    /\ UNCHANGED <<force_failure, audio_frame_count, openai_key, eleven_key,
                   room_connected, session_started, streamVars, utterances, test_result,
                   exit_status>>

\* entrypoint steps 5-7: the AgentSession is created and started; from then
\* on the session calls the FallbackTTS
StartSession ==
    /\ startup = "plugins"
    /\ session_started' = TRUE
    /\ startup' = "live"
    /\ UNCHANGED <<force_failure, audio_frame_count, fallback_tts,
                   openai_key, eleven_key, room_connected, plugins,
                   streamVars, utterances, test_result,
                   exit_status>>

\* the process before the module is imported, for every setting of the keys
\* and of GRANNY_FORCE_FALLBACK
StartupInit ==
    /\ force_failure \in BOOLEAN
    /\ openai_key \in KeyValues
    /\ eleven_key \in {"unset", "set"}
    /\ startup = "import"
    /\ room_connected = FALSE
    /\ plugins = {}
    /\ session_started = FALSE
    /\ fallback_tts = "none"
    /\ utterances = <<>>
    /\ test_result = "none"
    /\ exit_status = Running
    /\ active_provider = "none"
    /\ audio_frame_count = 0
    /\ stream_kind = "none"
    /\ text_buffer = <<>>
    /\ segment_ended = FALSE
    /\ current_stream = "none"
    /\ using_fallback = FALSE
    /\ frame_count = 0
    /\ initialized = FALSE
    /\ exhausted = FALSE
    /\ logged_frame_count = 0
    /\ backend = [p \in Providers |-> FreshBackend]
    /\ pc = "idle"
    /\ last_result = "none"
    /\ errored = FALSE
    /\ eos_pulls = FALSE
    /\ delivered = <<>>
    /\ pushes = 0
    /\ marks = 0
    /\ synth_result = "none"
    /\ closed = FALSE

StartupNext ==
    \/ ImportModule
    \/ ValidateKeys
    \/ \E ok \in BOOLEAN : TestOpenAIConnection(ok)
    \/ ConnectRoom
    \/ InitPlugins
    \/ StartSession
    \/ Next

StartupSpec == StartupInit /\ [][StartupNext]_vars

\* ---- several utterances of one FallbackTTS ----

\* Each stream() call returns a new stream object with fields of its own;
\* _active_provider is a field of the FallbackTTS they all come from.  Only
\* the wrapper's state is kept here, the backends are left out.

\* everything but the utterances and the reported provider
restVars == <<force_failure, audio_frame_count, fallback_tts, entryVars,
              test_result, exit_status,
              stream_kind, fssVars, logged_frame_count, backend, pullVars,
              callerVars>>

\* the fields FallbackSynthesizeStream.__init__ gives a new stream; in forced
\* mode the stream is a LoggedSynthesizeStream, which holds no text
NewStream ==
    [kind |-> IF ForcedBranch THEN "LoggedSynthesizeStream"
              ELSE "FallbackSynthesizeStream",
     text_buffer |-> <<>>, segment_ended |-> FALSE,
     using_fallback |-> FALSE]

\* FallbackTTS.stream(text), called for another utterance
UttStream ==
    /\ Len(utterances) < MaxUtterances
    /\ active_provider' = IF ForcedBranch THEN "fallback" ELSE "primary"
    /\ utterances' = Append(utterances, NewStream)
    /\ UNCHANGED restVars

\* push_text on the i-th utterance
UttPushText(i) ==
    /\ utterances[i].kind = "FallbackSynthesizeStream"
    /\ Len(utterances[i].text_buffer) < MaxPush
    /\ utterances' =
           [utterances EXCEPT ![i].text_buffer =
                Append(@, Chunk(Len(@) + 1))]
    /\ UNCHANGED <<active_provider, restVars>>

\* mark_segment_end on the i-th utterance
UttMarkSegmentEnd(i) ==
    /\ utterances[i].kind = "FallbackSynthesizeStream"
    /\ ~utterances[i].segment_ended
    /\ utterances' = [utterances EXCEPT ![i].segment_ended = TRUE]
    /\ UNCHANGED <<active_provider, restVars>>

\* a pull on the i-th utterance on which the primary raised:
\* _switch_to_fallback sets the stream's _using_fallback
UttSwitchToFallback(i) ==
    /\ utterances[i].kind = "FallbackSynthesizeStream"
    /\ ~utterances[i].using_fallback
    /\ utterances' = [utterances EXCEPT ![i].using_fallback = TRUE]
    /\ UNCHANGED <<active_provider, restVars>>

MultiNext ==
    \/ UttStream
    \/ \E i \in 1..Len(utterances) : UttPushText(i)
    \/ \E i \in 1..Len(utterances) : UttMarkSegmentEnd(i)
    \/ \E i \in 1..Len(utterances) : UttSwitchToFallback(i)
    \/ \E po, fo \in BOOLEAN : Synthesize(po, fo)

MultiSpec == Init /\ [][MultiNext]_vars

\* ---- the self-test: __main__ with GRANNY_SELF_TEST=1 ----

\* The process imports the module and runs run_self_test, which builds a
\* FallbackTTS and drives one stream: stream(test_text), mark_segment_end,
\* pulls until the end-of-stream, aclose.  It pushes no text; whether a
\* backend speaks the text handed to stream() is up to the backend.

TestText == "Hello! This is Granny performing a self-test. Can you hear me?"

\* run_self_test, _validate_keys(): outside the try block, so its
\* RuntimeError leaves run_self_test
SelfTestValidateKeys ==
    /\ startup = "loaded"
    /\ startup' = IF KeyPresent(openai_key) THEN "st_validated" ELSE "failed"
    /\ UNCHANGED <<force_failure, audio_frame_count, fallback_tts,
                   openai_key, eleven_key, room_connected, plugins,
                   session_started, streamVars, utterances, test_result,
                   exit_status>>

\* run_self_test, _test_openai_connection(), outside the try block as well
SelfTestConnection(ok) ==
    /\ startup = "st_validated"
    /\ startup' = IF ok THEN "self_test" ELSE "failed"
    /\ fallback_tts' = IF ok THEN FallbackObject ELSE fallback_tts
    /\ plugins' = IF ok
                  THEN {"openai_tts", "tts"}
                       \cup (IF Truthy(eleven_key) THEN {"elevenlabs_tts"}
                             ELSE {})
                  ELSE plugins
    /\ UNCHANGED <<force_failure, audio_frame_count, openai_key, eleven_key,
                   room_connected, session_started, streamVars, utterances,
                   test_result, exit_status>>

\* mark_segment_end raised: only the logging stream forwards it before the
\* first pull
MarkRaised ==
    /\ stream_kind = "LoggedSynthesizeStream"
    /\ marks > 0
    /\ last_result = "none"
    /\ pc = "idle"
    /\ backend["fallback"].failed

\* an exception has been raised inside the try block: by stream(), by
\* mark_segment_end() or by a pull
TryRaised == stream_kind = "raised" \/ MarkRaised \/ errored

\* control is inside the try block
InTry == startup = "self_test" /\ ~TryRaised /\ pc = "idle"

\* stream = tts_provider.stream(test_text)
TryStream(fo) == InTry /\ StreamCall(fo)

\* stream.mark_segment_end()
TryMarkSegmentEnd(ok) == InTry /\ marks = 0 /\ MarkSegmentEnd(ok)

\* async for audio in stream: the next pull, until the end-of-stream
TryPull(po, pk, fo, fk) ==
    /\ InTry
    /\ marks > 0
    /\ last_result # "stop"
    /\ \/ PullFallbackStream(po, pk, fo, fk)
       \/ po /\ fo /\ pk = 0 /\ fk = 0 /\ PullLoggedStream

\* await stream.aclose(), after the loop
TryAclose == InTry /\ last_result = "stop" /\ Aclose

\* the awaited backend stream takes the text it was opened with as its input
BackendTakesText ==
    /\ startup = "self_test"
    /\ pc = "await"
    /\ backend[Inner].recv = <<>>
    /\ backend' = [backend EXCEPT ![Inner].recv = <<TestText>>]
    /\ UNCHANGED <<ttsVars, active_provider, stream_kind, fssVars,
                   logged_frame_count, pullVars, callerVars>>

\* run_self_test passing everything that completes
SelfTestPassed_AnyCompletion(raised, frames) == ~raised

\* the value run_self_test returns: False from the except clause, else
\* frame_count > 0
SelfTestPassed(raised, frames) == ~raised /\ frames > 0

\* __main__: exit(0 if success else 1)
ExitStatus(success) == IF success THEN 0 ELSE 1

\* run_self_test returns and __main__ exits with its verdict
SelfTestReturn ==
    /\ startup = "self_test"
    /\ pc = "idle"
    /\ TryRaised \/ closed
    /\ LET success == SelfTestPassed(TryRaised, Len(delivered)) IN
       /\ test_result' = IF success THEN "passed" ELSE "failed"
       /\ exit_status' = ExitStatus(success)
    /\ startup' = "exited"
    /\ UNCHANGED <<force_failure, audio_frame_count, fallback_tts,
                   openai_key, eleven_key, room_connected, plugins,
                   session_started, streamVars, utterances>>

\* an exception nobody catches (at import, or raised by run_self_test before
\* its try block) ends the process with status 1
UncaughtExit ==
    /\ startup = "failed"
    /\ test_result' = "raised"
    /\ exit_status' = 1
    /\ startup' = "exited"
    /\ UNCHANGED <<force_failure, audio_frame_count, fallback_tts,
                   openai_key, eleven_key, room_connected, plugins,
                   session_started, streamVars, utterances>>

SelfTestNext ==
    \/ ImportModule
    \/ SelfTestValidateKeys
    \/ \E ok \in BOOLEAN : SelfTestConnection(ok)
    \/ \E fo \in BOOLEAN : TryStream(fo)
    \/ \E ok \in BOOLEAN : TryMarkSegmentEnd(ok)
    \/ \E po, fo \in BOOLEAN, pk, fk \in Outcomes : TryPull(po, pk, fo, fk)
    \/ BackendTakesText
    \/ RespFrame
    \/ RespStop
    \/ \E fo \in BOOLEAN, fk \in Outcomes : RespFail(fo, fk)
    \/ TryAclose
    \/ SelfTestReturn
    \/ UncaughtExit

SelfTestSpec == StartupInit /\ [][SelfTestNext]_vars

\* ---- the claims ----

\* the frames the newest stream of provider p has yielded so far
Yielded(p) == SubSeq(Synth(p, backend[p].recv), 1, backend[p].yielded)

\* C1: with a FallbackSynthesizeStream whose primary never fails, the frames
\* returned are exactly the frames the primary stream yielded, in its order;
\* once opened, the primary stream has received exactly the pushed chunks, so
\* these frames are the primary's audio of the buffer; no stream() call
\* reaches the fallback; and the synthesizer reports "primary" as the active
\* provider all along.
C1_PrimaryOnly ==
    (/\ stream_kind = "FallbackSynthesizeStream"
     /\ ~backend["primary"].failed
     /\ ~backend["primary"].sfailed)
    => /\ delivered = Yielded("primary")
       /\ initialized => backend["primary"].recv = text_buffer
       /\ IsPrefix(delivered, Synth("primary", text_buffer))
       /\ backend["fallback"].streams = 0
       /\ ~using_fallback
       /\ active_provider = "primary"

\* C1 witness: two chunks and the end marker, the primary served both frames
\* and the end-of-stream, and never failed
C1_Witness ==
    /\ stream_kind = "FallbackSynthesizeStream"
    /\ ~backend["primary"].failed
    /\ ~backend["primary"].sfailed
    /\ segment_ended
    /\ exhausted
    /\ last_result = "stop"
    /\ delivered = Synth("primary", <<Chunk(1), Chunk(2)>>)

\* C2: when the stream switched to the fallback before the primary yielded a
\* frame (its open, its replay or its first pull raised) and no fallback call
\* raises, the frames returned are exactly the frames of the fallback stream,
\* which has received exactly the buffered chunks in push order, and the end
\* marker if and only if the segment was marked ended; no frame of the
\* primary is returned.
C2_FallbackFromStart ==
    (/\ stream_kind = "FallbackSynthesizeStream"
     /\ using_fallback
     /\ backend["primary"].yielded = 0
     /\ ~backend["fallback"].failed)
    => /\ current_stream = "fallback"
       /\ backend["fallback"].recv = text_buffer
       /\ (backend["fallback"].ends > 0) = segment_ended
       /\ delivered = Yielded("fallback")
       /\ IsPrefix(delivered, Synth("fallback", text_buffer))
       /\ \A i \in 1..Len(delivered) : delivered[i][1] # "primary"

\* C2 witness: two chunks and the end marker were pushed, the primary stream
\* was opened and raised on the first pull, and the fallback served the whole
\* utterance
C2_Witness ==
    /\ stream_kind = "FallbackSynthesizeStream"
    /\ backend["primary"].streams = 1
    /\ backend["primary"].live = 1
    /\ backend["primary"].recv = <<Chunk(1), Chunk(2)>>
    /\ backend["primary"].yielded = 0
    /\ backend["primary"].failed
    /\ ~backend["fallback"].failed
    /\ using_fallback
    /\ exhausted
    /\ delivered = Synth("fallback", <<Chunk(1), Chunk(2)>>)

\* C3: when the primary raised on a pull after it had yielded k > 0 frames and
\* no fallback call raises, the frames returned are exactly those k frames of
\* the primary, in its order, followed by the frames of the fallback stream,
\* which has received the whole buffer; no pull has raised an error, and the
\* pull on which the primary raised goes on to await the fallback.
C3_FallbackMidStream ==
    (/\ stream_kind = "FallbackSynthesizeStream"
     /\ using_fallback
     /\ backend["primary"].yielded > 0
     /\ ~backend["fallback"].failed)
    => /\ current_stream = "fallback"
       /\ backend["fallback"].recv = text_buffer
       /\ (backend["fallback"].ends > 0) = segment_ended
       /\ delivered = Yielded("primary") \o Yielded("fallback")
       /\ IsPrefix(Yielded("fallback"), Synth("fallback", text_buffer))
       /\ ~errored
       /\ last_result # "error"

\* C3 witness: the primary yielded the first of two frames and raised on the
\* second pull; the caller got that frame, then both frames of the fallback
\* and the end-of-stream
C3_Witness ==
    /\ stream_kind = "FallbackSynthesizeStream"
    /\ backend["primary"].failed
    /\ ~backend["fallback"].failed
    /\ exhausted
    /\ delivered = <<Frame("primary", 1, Chunk(1)),
                     Frame("fallback", 1, Chunk(1)),
                     Frame("fallback", 2, Chunk(2))>>

\* C4: once a pull has raised an error (the fallback failed too), no later
\* pull on the stream returns a frame, whatever the backends do afterwards.
\* Violated: __anext__ keeps no record of the fatal error, so the next pull
\* requests a frame from _current_stream again and returns what it yields.
C4_NoFrameAfterFatalError == [][errored => delivered' = delivered]_vars

\* C5: a pull raises an error only if a call on the fallback (its stream()
\* or a call on its stream) has raised: a failure of the primary alone, at
\* open, during the replay or on a pull, never reaches the caller of
\* __anext__.
C5_PrimaryFailureAbsorbed == errored => backend["fallback"].failed

\* C5 witness: the primary raised, at open or on its stream, the fallback did
\* not, and a pull has returned a frame of the fallback without any error
C5_Witness ==
    /\ stream_kind = "FallbackSynthesizeStream"
    /\ backend["primary"].failed
    /\ ~backend["fallback"].failed
    /\ ~errored
    /\ last_result = "frame"
    /\ delivered = <<Frame("fallback", 1, Chunk(1))>>

\* C6: in the step in which the stream switches to the fallback and requests
\* the first frame from it, the fallback stream has received exactly the
\* buffered chunks, each once and in push order, and exactly one end marker
\* if the segment was marked ended (none otherwise), and has yielded nothing
\* yet: the whole replay precedes the first frame request.
C6_ReplayBeforeFirstRequest ==
    [][(/\ stream_kind = "FallbackSynthesizeStream"
        /\ ~using_fallback
        /\ using_fallback'
        /\ pc' = "await")
       => /\ current_stream' = "fallback"
          /\ backend'["fallback"].streams = 1
          /\ backend'["fallback"].recv = text_buffer
          /\ backend'["fallback"].ends = (IF segment_ended THEN 1 ELSE 0)
          /\ backend'["fallback"].yielded = 0]_vars

\* C6 witness: two chunks and the end marker were pushed before the
\* first pull, the primary raised on that pull, and the pull now awaits the
\* first frame of the fallback, which holds both chunks and one end marker
C6_Witness ==
    /\ stream_kind = "FallbackSynthesizeStream"
    /\ pc = "await"
    /\ current_stream = "fallback"
    /\ backend["primary"].recv = <<Chunk(1), Chunk(2)>>
    /\ backend["primary"].ends = 1
    /\ backend["primary"].yielded = 0
    /\ backend["primary"].failed
    /\ backend["fallback"].recv = <<Chunk(1), Chunk(2)>>
    /\ backend["fallback"].ends = 1
    /\ backend["fallback"].yielded = 0
    /\ delivered = <<>>

\* C7: within the utterance at most one stream() call is made on the
\* fallback, and once _using_fallback is set it stays set and no step makes
\* another stream() call on the fallback, whatever fails afterwards.
C7_SingleFallback ==
    [][/\ backend'["fallback"].streams <= 1
       /\ using_fallback
          => /\ using_fallback'
             /\ backend'["fallback"].streams = backend["fallback"].streams
             /\ backend'["primary"].streams = backend["primary"].streams]_vars

\* C7 witness: after the switch the fallback stream yielded a frame and then
\* raised on a pull; the error went to the caller and the fallback was still
\* opened once
C7_Witness ==
    /\ stream_kind = "FallbackSynthesizeStream"
    /\ using_fallback
    /\ current_stream = "fallback"
    /\ backend["fallback"].streams = 1
    /\ backend["fallback"].yielded = 1
    /\ backend["fallback"].recv = <<Chunk(1), Chunk(2)>>
    /\ backend["fallback"].ends = 1
    /\ backend["fallback"].failed
    /\ last_result = "error"

\* C8: once a pull on a FallbackSynthesizeStream has signalled end-of-stream,
\* no later step pulls anything else out of it: the last pull result stays
\* end-of-stream, no pull raises, no pull is left awaiting a backend, no
\* frame is requested, yielded or returned, and no stream() call is made.
C8_EndOfStreamIdempotent ==
    [][(stream_kind = "FallbackSynthesizeStream" /\ last_result = "stop")
       => /\ last_result' = "stop"
          /\ pc' = "idle"
          /\ exhausted'
          /\ errored' = errored
          /\ delivered' = delivered
          /\ \A p \in Providers :
                /\ backend'[p].streams = backend[p].streams
                /\ backend'[p].yielded = backend[p].yielded
                /\ backend'[p].live <= backend[p].live]_vars

\* C8 witness: the fallback served the utterance after the primary failed,
\* the end-of-stream was signalled, and a later pull signalled it again
C8_Witness ==
    /\ stream_kind = "FallbackSynthesizeStream"
    /\ using_fallback
    /\ eos_pulls
    /\ last_result = "stop"
    /\ pc = "idle"
    /\ ~errored
    /\ delivered = Synth("fallback", <<Chunk(1)>>)

\* C9: with the force-failure flag set no call ever reaches the primary
\* backend, neither stream() nor synthesize(), whatever the caller does and
\* whatever the fallback does, failures included.
C9_ForcedNeverCallsPrimary ==
    force_failure
    => /\ ~backend["primary"].called
       /\ backend["primary"].streams = 0
       /\ backend["primary"].live = 0
       /\ ~using_fallback /\ ~initialized

\* C9 witness: forced mode, the fallback's synthesize() raised, its stream
\* yielded a frame and then raised on a pull, and the primary was not called
C9_Witness ==
    /\ force_failure
    /\ stream_kind = "LoggedSynthesizeStream"
    /\ synth_result = "error"
    /\ backend["fallback"].sfailed
    /\ backend["fallback"].failed
    /\ last_result = "error"
    /\ Len(delivered) = 1
    /\ ~backend["primary"].called

\* C10: at every reachable state at most one backend stream of the utterance
\* is open (opened and not closed): the fallback stream is opened only after
\* the primary stream has been closed.
\* Violated: _switch_to_fallback replaces _current_stream without calling
\* aclose on the primary stream, which is never closed afterwards.
C10_OneOpenConnection ==
    backend["primary"].live + backend["fallback"].live <= 1

\* C11: once the caller has called aclose, every backend stream opened for
\* the utterance is closed, on every path.
\* Violated: aclose closes _current_stream only, and after a switch that is
\* the fallback's stream; the primary's stream stays open for good.
C11_AllClosedAfterAclose ==
    closed => \A p \in Providers : backend[p].live = 0

\* C12: while the stream has switched to the fallback before any primary
\* frame and the fallback stream is the current one, the synthesizer reports
\* the fallback as the active provider.
\* Violated: _switch_to_fallback sets the stream's _using_fallback and leaves
\* FallbackTTS._active_provider at "primary", the value stream() gave it.
C12_ReportsFallbackAfterSwitch ==
    (/\ stream_kind = "FallbackSynthesizeStream"
     /\ using_fallback
     /\ current_stream = "fallback"
     /\ backend["primary"].yielded = 0)
    => active_provider = "fallback"

\* C13 (as stated): after a switch only the text the primary has not yet
\* turned into delivered audio is sent to the fallback, and the caller gets
\* no two frames for the same chunk.
\* Violated: _switch_to_fallback replays the whole of _text_buffer.
C13_OnlyUndeliveredReplayed ==
    (/\ stream_kind = "FallbackSynthesizeStream"
     /\ using_fallback
     /\ current_stream = "fallback"
     /\ ~backend["fallback"].failed)
    => /\ IsPrefix(Yielded("primary"), delivered)
       /\ backend["fallback"].recv =
              SubSeq(text_buffer, backend["primary"].yielded + 1,
                     Len(text_buffer))
       /\ \A i, j \in 1..Len(delivered) :
              i < j => delivered[i][3] # delivered[j][3]

\* C13 (amended): after a switch the frames the primary delivered stay
\* delivered, in place, and the fallback stream receives the entire buffer
\* from its first chunk on, the chunks whose audio the primary already
\* delivered included; the fallback's frames follow the primary's and start
\* again at the first chunk, so the audio of those chunks is delivered a
\* second time.
C13_WholeBufferReplayed ==
    (/\ stream_kind = "FallbackSynthesizeStream"
     /\ using_fallback
     /\ current_stream = "fallback"
     /\ ~backend["fallback"].failed)
    => LET k == backend["primary"].yielded IN
       /\ IsPrefix(Yielded("primary"), delivered)
       /\ backend["fallback"].recv = text_buffer
       /\ \A i \in 1..k :
              \E j \in 1..Len(text_buffer) :
                  /\ delivered[i][3] = text_buffer[j]
                  /\ backend["fallback"].recv[j] = text_buffer[j]
       /\ \A j \in 1..backend["fallback"].yielded :
              delivered[k + j] = Frame("fallback", j, text_buffer[j])

\* C13 witness: the primary delivered the audio of the only chunk and raised
\* on the next pull; the fallback received that chunk again and the caller
\* got its audio once more
C13_Witness ==
    /\ stream_kind = "FallbackSynthesizeStream"
    /\ using_fallback
    /\ pc = "idle"
    /\ last_result = "frame"
    /\ text_buffer = <<Chunk(1)>>
    /\ backend["fallback"].recv = <<Chunk(1)>>
    /\ delivered = <<Frame("primary", 1, Chunk(1)),
                     Frame("fallback", 1, Chunk(1))>>

\* C14: once _using_fallback is set, nothing is sent to the primary any more
\* (no stream() call, no pushed chunk, no end marker, no frame request that
\* it answers) and no frame returned afterwards is a frame of the primary.
\* Violated: when fallback.stream() raises after the primary stream was
\* opened, _using_fallback is set while _current_stream is still the
\* primary's stream, and later calls on the wrapper go to that stream.
C14_PrimaryNeverUsedAgain ==
    [][(stream_kind = "FallbackSynthesizeStream" /\ using_fallback)
       => /\ using_fallback'
          /\ backend'["primary"].streams = backend["primary"].streams
          /\ backend'["primary"].recv = backend["primary"].recv
          /\ backend'["primary"].ends = backend["primary"].ends
          /\ backend'["primary"].yielded = backend["primary"].yielded
          /\ \A i \in (Len(delivered) + 1)..Len(delivered') :
                 delivered'[i][1] # "primary"]_vars

\* C15: push_text(c) on a FallbackSynthesizeStream appends c at the end of
\* the buffer and changes nothing else in it, no step ever removes or
\* reorders buffered chunks, and if a backend stream is held the chunk is
\* handed to that stream, and to no other, exactly once within the same call
\* (unless that forwarded call raises); the empty chunk is treated like any
\* other.
C15_PushAppendsAndForwards ==
    [][/\ IsPrefix(text_buffer, text_buffer')
       /\ (stream_kind = "FallbackSynthesizeStream" /\ pushes' = pushes + 1)
          => LET c == Chunk(pushes + 1) IN
             /\ text_buffer' = Append(text_buffer, c)
             /\ \A p \in Providers :
                    IF p = current_stream
                    THEN \/ backend'[p].recv = Append(backend[p].recv, c)
                         \/ /\ backend'[p].failed
                            /\ backend'[p].recv = backend[p].recv
                    ELSE backend'[p] = backend[p]]_vars

\* C15 witness: the empty chunk was pushed second; the buffer ends with it
\* and the primary stream, open and awaited, has received it after "Hello"
C15_Witness ==
    /\ stream_kind = "FallbackSynthesizeStream"
    /\ Chunk(2) = ""
    /\ text_buffer = <<"Hello", "">>
    /\ current_stream = "primary"
    /\ ~backend["primary"].failed
    /\ backend["primary"].recv = <<"Hello", "">>
    /\ backend["primary"].yielded = 1
    /\ pc = "await"

\* C16: mark_segment_end() on a FallbackSynthesizeStream sets the
\* segment-ended flag, which no step ever clears; it hands one end marker to
\* the held backend stream, if there is one, and to no other (unless that
\* forwarded call raises); and it leaves the text buffer, the stream in use,
\* the fallback latch and the reported active provider as they were.
C16_MarkSegmentEndFrame ==
    [][/\ segment_ended => segment_ended'
       /\ (stream_kind = "FallbackSynthesizeStream" /\ marks' = marks + 1)
          => /\ segment_ended'
             /\ text_buffer' = text_buffer
             /\ active_provider' = active_provider
             /\ current_stream' = current_stream
             /\ using_fallback' = using_fallback
             /\ \A p \in Providers :
                    IF p = current_stream
                    THEN \/ /\ backend'[p].ends = backend[p].ends + 1
                            /\ backend'[p].recv = backend[p].recv
                         \/ /\ backend'[p].failed
                            /\ backend'[p].ends = backend[p].ends
                    ELSE backend'[p] = backend[p]]_vars

\* C16 witness: the segment was marked ended while the primary stream was
\* held; the flag is set, the primary stream has its end marker and the
\* buffer still holds the one pushed chunk, whose frame has been returned
C16_Witness ==
    /\ stream_kind = "FallbackSynthesizeStream"
    /\ marks = 1
    /\ segment_ended
    /\ current_stream = "primary"
    /\ active_provider = "primary"
    /\ ~backend["primary"].failed
    /\ backend["primary"].ends = 1
    /\ text_buffer = <<Chunk(1)>>
    /\ delivered = <<Frame("primary", 1, Chunk(1))>>
    /\ pc = "idle"
    /\ ~exhausted

\* C17: with a FallbackSynthesizeStream (non-forced mode) no backend stream
\* is opened before the first pull, neither by stream(), push_text nor
\* mark_segment_end; the primary stream is opened at most once, and only by
\* the step that is the first pull; and when that pull goes on to request the
\* first frame from the primary, the primary stream has received the whole
\* buffer in push order and one end marker if the segment was marked ended
\* (none otherwise), and has yielded nothing yet.
C17_PrimaryOpenedOnFirstPull ==
    [][stream_kind' = "FallbackSynthesizeStream"
       => /\ ~initialized'
             => \A p \in Providers : /\ backend'[p].streams = 0
                                     /\ backend'[p].live = 0
          /\ backend'["primary"].streams <= 1
          /\ backend'["primary"].streams # backend["primary"].streams
             => ~initialized /\ initialized' /\ pc = "idle"
          /\ (~initialized /\ initialized' /\ current_stream' = "primary"
              /\ pc' = "await")
             => /\ backend'["primary"].streams = 1
                /\ backend'["primary"].recv = text_buffer
                /\ backend'["primary"].ends =
                       (IF segment_ended THEN 1 ELSE 0)
                /\ backend'["primary"].yielded = 0]_vars

\* C17 witness: two chunks and the end marker were pushed before the first
\* pull; that pull opened the primary stream, replayed all three onto it and
\* now awaits its first frame; the fallback was not touched
C17_Witness ==
    /\ stream_kind = "FallbackSynthesizeStream"
    /\ initialized
    /\ ~using_fallback
    /\ pc = "await"
    /\ current_stream = "primary"
    /\ text_buffer = <<Chunk(1), Chunk(2)>>
    /\ segment_ended
    /\ backend["primary"].streams = 1
    /\ backend["primary"].recv = <<Chunk(1), Chunk(2)>>
    /\ backend["primary"].ends = 1
    /\ backend["primary"].yielded = 0
    /\ ~backend["primary"].failed
    /\ backend["fallback"].streams = 0
    /\ delivered = <<>>

\* C18: in forced mode no backend stream is opened between the creation of
\* the stream and the first pull on it: the fallback stream is opened by the
\* first pull, not earlier.
\* Violated: FallbackTTS.stream itself calls fallback.stream() and wraps the
\* open stream, before any pull.
C18_ForcedOpensOnFirstPull ==
    (/\ force_failure
     /\ stream_kind = "LoggedSynthesizeStream"
     /\ pc = "idle"
     /\ last_result = "none")
    => \A p \in Providers : backend[p].streams = 0 /\ backend[p].live = 0

\* the TTS object behind a role of the FallbackTTS entrypoint builds
ObjectOf(role) == IF role = "primary" THEN "openai" ELSE fallback_tts

\* stream() calls made so far on the TTS object o, through either role
StreamsOn(o) ==
    (IF ObjectOf("primary") = o THEN backend["primary"].streams ELSE 0)
    + (IF ObjectOf("fallback") = o THEN backend["fallback"].streams ELSE 0)

\* C19: started without a secondary key, the agent runs primary-only: for an
\* utterance at most one stream() call is made on a backend at all, so after
\* a failure of the primary no second stream is opened, and in particular
\* not on the primary's own TTS object.
\* Violated: entrypoint passes the OpenAI TTS object as fallback_tts too, and
\* _switch_to_fallback calls stream() on it again.
C19_PrimaryOnlyWithoutSecondaryKey ==
    (session_started /\ eleven_key = "unset")
    => /\ backend["primary"].streams + backend["fallback"].streams <= 1
       /\ StreamsOn("openai") <= 1

\* C20: when OPENAI_API_KEY is missing (unset, empty or blank), startup fails
\* before any later step: the room is never connected, no provider object is
\* created, no session is started, and no synthesizer call is ever made.
C20_MissingPrimaryKeyIsFatal ==
    openai_key \in {"unset", "blank"}
    => /\ startup \in {"import", "loaded", "failed"}
       /\ ~room_connected
       /\ plugins = {}
       /\ ~session_started
       /\ fallback_tts = "none"
       /\ stream_kind = "none"
       /\ \A p \in Providers : ~backend[p].called

\* C20 witness: OPENAI_API_KEY holds white space only; the import check let
\* it pass and _validate_keys has raised, with nothing connected or created
C20_Witness ==
    /\ openai_key = "blank"
    /\ startup = "failed"
    /\ ~room_connected
    /\ plugins = {}
    /\ ~session_started

\* C21: a LoggedSynthesizeStream passes everything through: the frames
\* returned are exactly the frames its inner stream has yielded, in that
\* order and unaltered; its frame counter is the number of frames returned;
\* a pull raises only if the inner stream raised; as long as no forwarded
\* call has raised, the inner stream has received exactly the pushed chunks
\* in push order, once each, and one end marker per mark_segment_end call;
\* and after aclose the inner stream is closed.
C21_LoggedStreamPassThrough ==
    stream_kind = "LoggedSynthesizeStream"
    => /\ delivered = Yielded("fallback")
       /\ logged_frame_count = Len(delivered)
       /\ errored => backend["fallback"].failed
       /\ ~backend["fallback"].failed
          => /\ backend["fallback"].recv = [i \in 1..pushes |-> Chunk(i)]
             /\ backend["fallback"].ends = marks
       /\ backend["fallback"].streams = 1
       /\ backend["fallback"].live = (IF closed THEN 0 ELSE 1)

\* C21 witness: through the logging stream two chunks and the end marker were
\* pushed, both frames and the end-of-stream came back, and it was closed
C21_Witness ==
    /\ stream_kind = "LoggedSynthesizeStream"
    /\ pushes = 2
    /\ marks = 1
    /\ ~backend["fallback"].failed
    /\ delivered = Synth("fallback", <<Chunk(1), Chunk(2)>>)
    /\ logged_frame_count = 2
    /\ last_result = "stop"
    /\ closed

\* C22: with several utterances of one synthesizer in flight, a step that
\* changes one utterance (a push, an end marker, a fallback) changes neither
\* another utterance nor the reported active provider, and a step that
\* creates a new utterance leaves the earlier ones and what is reported
\* while they are in flight as they were.
\* Violated: _active_provider is one field of the FallbackTTS, and every
\* stream() call writes it.
C22_UtterancesIsolated ==
    [][\A i \in 1..Len(utterances) :
          /\ utterances'[i] # utterances[i]
             => /\ active_provider' = active_provider
                /\ \A j \in 1..Len(utterances) :
                       j # i => utterances'[j] = utterances[j]
          /\ Len(utterances') > Len(utterances)
             => /\ active_provider' = active_provider
                /\ utterances'[i] = utterances[i]]_vars

\* C23: audio_frame_count is the number of frames returned to callers.
\* Violated: _audio_frame_count is set to 0 by __init__ and written nowhere
\* else; the streams count in fields of their own.
C23_AudioFrameCount == audio_frame_count = Len(delivered)

\* C24: whatever the interleaving of pushes, end markers and pulls, the
\* current backend stream of a FallbackSynthesizeStream, as long as no call
\* on its provider has raised (it was opened and replayed successfully and
\* every forwarded call returned), has received exactly the buffer, each
\* chunk once and in push order, and has received an end marker if and only
\* if the segment was marked ended.
C24_CurrentStreamHoldsBuffer ==
    (/\ stream_kind = "FallbackSynthesizeStream"
     /\ current_stream # "none"
     /\ ~backend[current_stream].failed)
    => /\ backend[current_stream].recv = text_buffer
       /\ (backend[current_stream].ends > 0) = segment_ended
       /\ Len(text_buffer) = pushes

\* C24 witness: the first chunk was pushed before the primary was abandoned,
\* the second chunk and the end marker after the switch; the fallback stream
\* holds both chunks in order and the end marker, the primary stream only the
\* first chunk and no end marker
C24_Witness ==
    /\ stream_kind = "FallbackSynthesizeStream"
    /\ using_fallback
    /\ current_stream = "fallback"
    /\ ~backend["fallback"].failed
    /\ text_buffer = <<Chunk(1), Chunk(2)>>
    /\ segment_ended
    /\ backend["primary"].recv = <<Chunk(1)>>
    /\ backend["primary"].ends = 0
    /\ backend["fallback"].recv = <<Chunk(1), Chunk(2)>>
    /\ backend["fallback"].ends = 1

\* C25: a pull on a FallbackSynthesizeStream that awaits a backend makes
\* progress with every answer: the answer either ends the pull (a frame, the
\* end-of-stream or an error goes to the caller), or it is the one retry, the
\* step that sets _using_fallback, opens the fallback once and requests a
\* frame from it in the nested __anext__ call.  _using_fallback is never
\* reset, so a pull makes at most one retry: at most two frame requests, one
\* nested call, and, with at most one stream() call per provider, at most
\* two opens.  Steps of the caller in between leave the pull where it is.
C25_PullRetriesAtMostOnce ==
    [][stream_kind = "FallbackSynthesizeStream"
       => /\ using_fallback => using_fallback'
          /\ backend'["primary"].streams <= 1
          /\ backend'["fallback"].streams <= 1
          /\ pc = "await"
             => \/ /\ pc' = "idle"
                   /\ last_result' \in {"frame", "stop", "error"}
                \/ /\ pc' = "await"
                   /\ ~using_fallback /\ using_fallback'
                   /\ current_stream' = "fallback"
                   /\ backend'["fallback"].streams = 1
                   /\ backend'["fallback"].yielded = 0
                \/ /\ UNCHANGED <<pullVars, current_stream, using_fallback,
                                  exhausted, frame_count>>
                   /\ \A p \in Providers :
                         /\ backend'[p].streams = backend[p].streams
                         /\ backend'[p].yielded = backend[p].yielded
          /\ (pc = "idle" /\ pc' = "idle" /\ last_result' # last_result)
             => last_result' \in {"stop", "error"}]_vars

\* C25 witness: the primary returned one frame and raised on the second
\* pull; that pull has switched and now awaits the fallback's first frame in
\* the nested call
C25_Witness ==
    /\ stream_kind = "FallbackSynthesizeStream"
    /\ pc = "await"
    /\ using_fallback
    /\ current_stream = "fallback"
    /\ delivered = <<Frame("primary", 1, Chunk(1))>>
    /\ backend["primary"].failed
    /\ backend["fallback"].streams = 1
    /\ backend["fallback"].yielded = 0
    /\ ~backend["fallback"].failed
    /\ ~exhausted

\* C26: when the primary stream, which never raised, has the end marker and
\* has yielded all its frames (none at all, possibly), the answer it gives to
\* the awaiting pull without raising is the end-of-stream: the pull ends with
\* end-of-stream, not with an error, the stream is exhausted, it has not
\* switched and the fallback has not been opened; and an exhausted stream
\* that has not switched never opens the fallback later.
C26_PrimaryExhaustionIsNotFailure ==
    [][stream_kind = "FallbackSynthesizeStream"
       => /\ (/\ pc = "await"
              /\ current_stream = "primary"
              /\ ~backend["primary"].failed
              /\ ~backend'["primary"].failed
              /\ backend["primary"].ends > 0
              /\ backend["primary"].yielded = Len(backend["primary"].recv)
              /\ (pc' # pc \/ using_fallback' # using_fallback))
             => /\ pc' = "idle"
                /\ last_result' = "stop"
                /\ exhausted'
                /\ ~using_fallback'
                /\ ~errored'
                /\ delivered' = delivered
                /\ backend'["fallback"].streams = 0
          /\ (exhausted /\ ~using_fallback)
             => /\ ~using_fallback'
                /\ backend'["fallback"].streams = 0]_vars

\* C26 witness: the segment was marked ended with no text pushed; the primary
\* signalled end-of-stream on the first pull, before any frame, and the
\* stream is exhausted with the fallback untouched
C26_Witness ==
    /\ stream_kind = "FallbackSynthesizeStream"
    /\ exhausted
    /\ last_result = "stop"
    /\ ~errored
    /\ ~using_fallback
    /\ text_buffer = <<>>
    /\ delivered = <<>>
    /\ backend["primary"].streams = 1
    /\ ~backend["primary"].failed
    /\ backend["fallback"].streams = 0

\* C27: in non-forced mode, once synthesize(text) has been called, the
\* primary's synthesize has received the text; the fallback's synthesize has
\* been called only if a synthesize call of the primary raised, and with the
\* same text; as long as no stream() call has rewritten it, the reported
\* provider is "primary" if the last call returned the primary's result and
\* "fallback" otherwise; and the last call raised only if the fallback's
\* synthesize raised.
C27_SynthesizeFallsBack ==
    (~force_failure /\ synth_result # "none")
    => /\ backend["primary"].stext = SynthText
       /\ backend["fallback"].stext # "none"
          => /\ backend["primary"].sfailed
             /\ backend["fallback"].stext = backend["primary"].stext
       /\ synth_result = "primary"
          => (stream_kind = "none" => active_provider = "primary")
       /\ synth_result \in {"fallback", "error"}
          => /\ backend["primary"].sfailed
             /\ backend["fallback"].stext = SynthText
             /\ (stream_kind = "none" => active_provider = "fallback")
       /\ synth_result = "error" => backend["fallback"].sfailed
       /\ backend["fallback"].sfailed => backend["primary"].sfailed

\* C27 witness: the primary's synthesize raised and the fallback's returned;
\* both received the text and "fallback" is reported
C27_Witness ==
    /\ ~force_failure
    /\ stream_kind = "none"
    /\ synth_result = "fallback"
    /\ active_provider = "fallback"
    /\ backend["primary"].sfailed
    /\ backend["primary"].stext = SynthText
    /\ backend["fallback"].stext = SynthText
    /\ ~backend["fallback"].sfailed

\* C28: when the self-test process has exited, run_self_test reported
\* success exactly if the stream ran to its end-of-stream and was closed
\* with no call raising and at least one frame received; it reported failure
\* if stream(), mark_segment_end() or a pull raised, or if the stream ended
\* with no frame; and the exit status is 0 exactly on success (1 on a
\* reported failure and on an exception raised before the try block).
C28_SelfTestVerdict ==
    startup = "exited"
    => /\ test_result \in {"passed", "failed", "raised"}
       /\ (test_result = "passed")
          = (/\ closed
             /\ last_result = "stop"
             /\ ~errored
             /\ Len(delivered) > 0)
       /\ (stream_kind = "raised" \/ errored) => test_result = "failed"
       /\ (closed /\ Len(delivered) = 0) => test_result = "failed"
       /\ test_result = "raised" => stream_kind = "none"
       /\ (exit_status = 0) = (test_result = "passed")
       /\ exit_status \in {0, 1}

\* C28 witness: the primary gave one frame and raised, the fallback gave its
\* frame and the end-of-stream; the self-test passed and the status is 0
C28_Witness ==
    /\ startup = "exited"
    /\ test_result = "passed"
    /\ exit_status = 0
    /\ using_fallback
    /\ delivered = <<Frame("primary", 1, TestText),
                     Frame("fallback", 1, TestText)>>

\* C28, second witness: the stream ended without a frame and without an
\* error; the self-test failed and the status is 1
C28_WitnessNoFrames ==
    /\ startup = "exited"
    /\ test_result = "failed"
    /\ exit_status = 1
    /\ closed
    /\ ~errored
    /\ delivered = <<>>

====
